---------------------------- MODULE Spec2Model ----------------------------
(***************************************************************************)
(* Model of alert_bot.py: the main loop, one tick of                       *)
(* check_prices_and_trigger_alerts, the rule battery and the 24h swing     *)
(* memory.                                                                 *)
(*                                                                         *)
(* Units.  Python floats are modelled by exact arithmetic on integers:     *)
(* prices and GBP/USDT amounts are in pence (1/100), percentages are whole *)
(* percents, token holdings are whole tokens.  A quotient the code forms   *)
(* (price / divisor) is kept as a fraction num/den with den > 0, and every *)
(* comparison is cross-multiplied, so no rounding is introduced.           *)
(***************************************************************************)
EXTENDS Integers, Sequences, FiniteSets, TLC

VARIABLES
    config,         \* the parsed config.json (read-only after start-up)
    pc,             \* position of the main loop
    now,            \* (weekday, hour) read by the gate of the current tick
    live_balances,  \* result of get_token_balances() in the current tick
    bal_failed,     \* symbols whose balanceOf call raised in the current tick
    idx,            \* 1-based position in TOKENS_TO_MONITOR of the next token
    iter,           \* locals of the loop iteration that ran last in this tick
    swing_memory,   \* symbol -> last_zone, for the symbols that have an entry
    top_run         \* observer: per symbol, the current run of "top" evaluations

vars == <<config, pc, now, live_balances, bal_failed, idx, iter, swing_memory, top_run>>

-----------------------------------------------------------------------------
(* Bounds of the model *)

\* top_run stops counting (saturates) at this many consecutive evaluations
MaxRun == 2

-----------------------------------------------------------------------------
(* Python values *)

\* Python's None: an absent config field, a null field of the quote
None == -999999

Max(a, b) == IF a >= b THEN a ELSE b
Min(a, b) == IF a <= b THEN a ELSE b
Abs(a) == IF a >= 0 THEN a ELSE -a

\* dict.get(key, default) on a config record whose absent keys hold None
Get(v, default) == IF v = None THEN default ELSE v

-----------------------------------------------------------------------------
(* config.json documents the model starts from *)

Token(sym, entry, buy, sell, minUsdt, minHold) ==
    [symbol |-> sym, entry_price |-> entry, buy_price |-> buy, sell_price |-> sell,
     min_usdt_balance |-> minUsdt, min_token_holding |-> minHold]

Weekdays == {"Monday", "Tuesday", "Wednesday", "Thursday", "Friday"}

\* POL: entry price 100.00, buy at 0.20 with 50.00 USDT, sell at 104.00 holding at
\* least 5.  SOL (no entry in TOKEN_CONTRACTS): entry price 100.00 only.
ConfigA ==
    [tracked_tokens |-> << Token("POL", 10000, 20, 10400, 5000, 5),
                           Token("SOL", 10000, None, None, None, None) >>,
     target_profit_percent |-> 4, price_surge_percent |-> 5, price_drop_percent |-> 5,
     start_hour |-> 8, end_hour |-> 18, days |-> Weekdays]

\* Overlapping surge/drop thresholds; entry price 0 or absent; minimum balances
\* 0 or absent; a day name the comprehension of TRADING_DAYS does not know.
ConfigB ==
    [tracked_tokens |-> << Token("POL", 0, 10400, 20, 0, 0),
                           Token("SOL", None, 20, 10400, None, None) >>,
     target_profit_percent |-> 4, price_surge_percent |-> 0, price_drop_percent |-> 0,
     start_hour |-> 8, end_hour |-> 18, days |-> {"Saturday", "sunday"}]

\* No 'days' in trading_hours: the default [] of line 61.
ConfigC ==
    [ConfigA EXCEPT !.days = {}]

\* One tracked token with a sell price and a minimum holding and no buy price
ConfigD ==
    [tracked_tokens |-> << Token("POL", None, None, 10400, None, 5) >>,
     target_profit_percent |-> 4, price_surge_percent |-> 5, price_drop_percent |-> 5,
     start_hour |-> 8, end_hour |-> 18, days |-> Weekdays]

Configs == {ConfigA, ConfigB, ConfigC, ConfigD}

-----------------------------------------------------------------------------
(* Settings extracted at import time *)

TRACKED_TOKENS_CONFIG == config.tracked_tokens

TOKENS_TO_MONITOR == [i \in 1..Len(TRACKED_TOKENS_CONFIG) |-> TRACKED_TOKENS_CONFIG[i].symbol]

TokenConfig(sym) ==
    LET i == CHOOSE j \in 1..Len(TRACKED_TOKENS_CONFIG) : TRACKED_TOKENS_CONFIG[j].symbol = sym
    IN  TRACKED_TOKENS_CONFIG[i]

ENTRY_PRICES(sym) == TokenConfig(sym).entry_price

\* TARGET_PROFIT_PERCENT * 100 of the code: the configured whole percentage
TARGET_PROFIT_PERCENT == config.target_profit_percent
PRICE_SURGE_PERCENT == config.price_surge_percent
PRICE_DROP_PERCENT == config.price_drop_percent
START_HOUR == config.start_hour
END_HOUR == config.end_hour

DayIndex(d) ==
    IF d = "Monday" THEN 0
    ELSE IF d = "Tuesday" THEN 1
    ELSE IF d = "Wednesday" THEN 2
    ELSE IF d = "Thursday" THEN 3
    ELSE IF d = "Friday" THEN 4
    ELSE IF d = "Saturday" THEN 5
    ELSE 6

TRADING_DAYS == {DayIndex(d) : d \in config.days}

\* The keys of TOKEN_CONTRACTS a tick looks up in live_balances: USDT and the
\* tracked POL (the other five balances are fetched and never read)
TOKEN_CONTRACTS == {"USDT", "POL"}

-----------------------------------------------------------------------------
(* Values the providers can return in the model *)

\* quote['price'], pence
Prices == {20, 10399, 10400, 10600}

\* quote['percent_change_3h'], percent
Changes3h == {-5, 0, 6}

\* quote['percent_change_24h'], percent
Changes24h == {-100, -10, 10}

\* balanceOf results: USDT in pence, tokens in whole tokens; None: the call raised
BalanceResults(sym) == IF sym = "USDT" THEN {4999, 5000, None} ELSE {0, 5, None}

Weekday == 0..6
Hour == 0..23

-----------------------------------------------------------------------------
(* Alert fragments: the rule that appended the text and the figure it shows *)

Frag(kind, val) == [kind |-> kind, val |-> val]

Kinds(parts) == {parts[i].kind : i \in 1..Len(parts)}

\* n/d (d > 0) rounded to the nearest integer, ties to even: round() and the
\* fixed-point format specifiers
RoundDiv(n, d) ==
    LET q == n \div d
        r == n % d
    IN  IF 2 * r < d THEN q
        ELSE IF 2 * r > d THEN q + 1
        ELSE IF q % 2 = 0 THEN q ELSE q + 1

-----------------------------------------------------------------------------
(* 24h swing alert memory *)

\* swing_memory.get(symbol, {}).get('last_zone', 'middle')
LastZone(sym) == IF sym \in DOMAIN swing_memory THEN swing_memory[sym] ELSE "middle"

\* Variant: one zone shared by all tracked symbols
SetZone_All(sym, zone) ==
    [s \in {TOKENS_TO_MONITOR[i] : i \in 1..Len(TOKENS_TO_MONITOR)} |-> zone]

\* Variant: the zone is not written back
SetZone_Keep(sym, zone) == swing_memory

\* swing_memory[symbol] = {'last_zone': zone}
SetZone(sym, zone) ==
    [s \in DOMAIN swing_memory \cup {sym} |-> IF s = sym THEN zone ELSE swing_memory[s]]

\* Variant: the fallback for a zero divisor is 0, not current_price
PriceAgo_FallbackZero(current_price, change_24h) ==
    LET d == 100 + change_24h
    IN  IF Abs(d) > 0
        THEN IF d > 0 THEN [num |-> current_price * 100, den |-> d]
                      ELSE [num |-> -(current_price * 100), den |-> -d]
        ELSE [num |-> 0, den |-> 1]

\* current_price / divisor, or current_price when the divisor is within 1e-9 of 0
\* (divisor = (100 + change_24h) / 100, so for whole percents: when it is 0)
PriceAgo(current_price, change_24h) ==
    LET d == 100 + change_24h
    IN  IF Abs(d) > 0
        THEN IF d > 0 THEN [num |-> current_price * 100, den |-> d]
                      ELSE [num |-> -(current_price * 100), den |-> -d]
        ELSE [num |-> current_price, den |-> 1]

\* "if prev_zone != 'top'" / "if prev_zone != 'bottom'": the price entered zone
\* Variants: no memory check at all; an alert only on leaving the middle zone
IsNewZone_Always(prev_zone, zone) == TRUE
IsNewZone_FromMiddle(prev_zone, zone) == prev_zone = "middle"
IsNewZone(prev_zone, zone) == prev_zone # zone

\* Variant: the 24h high and low are padded by the size of the move, so that
\* the current price is not an end of the range
should_send_swing_alert_Padded(symbol, current_price, price_24h_ago) ==
    LET cp == current_price * price_24h_ago.den
        move == Abs(cp - price_24h_ago.num)
        current_24h_high == Max(cp, price_24h_ago.num) + move
        current_24h_low == Min(cp, price_24h_ago.num) - move
        range_diff == current_24h_high - current_24h_low
        top_threshold10 == 10 * current_24h_low + 9 * range_diff
        bottom_threshold10 == 10 * current_24h_low + range_diff
        prev_zone == LastZone(symbol)
    IN  IF 10 * range_diff <= price_24h_ago.den
        THEN [parts |-> <<>>, class |-> "skipped", memory |-> swing_memory]
        ELSE IF 10 * cp >= top_threshold10
        THEN IF IsNewZone(prev_zone, "top")
             THEN [parts |-> <<Frag("top", current_price)>>, class |-> "top",
                   memory |-> SetZone(symbol, "top")]
             ELSE [parts |-> <<>>, class |-> "top", memory |-> swing_memory]
        ELSE IF 10 * cp <= bottom_threshold10
        THEN IF IsNewZone(prev_zone, "bottom")
             THEN [parts |-> <<Frag("bottom", current_price)>>, class |-> "bottom",
                   memory |-> SetZone(symbol, "bottom")]
             ELSE [parts |-> <<>>, class |-> "bottom", memory |-> swing_memory]
        ELSE [parts |-> <<>>, class |-> "middle", memory |-> SetZone(symbol, "middle")]

\* The body of should_send_swing_alert.  All quantities are scaled by
\* price_24h_ago.den; the thresholds are further scaled by 10.
\* Result: the fragments, the zone the price was classified in ("skipped" when
\* the range is too small) and the swing memory after the call.
should_send_swing_alert(symbol, current_price, price_24h_ago) ==
    LET cp == current_price * price_24h_ago.den
        current_24h_high == Max(cp, price_24h_ago.num)
        current_24h_low == Min(cp, price_24h_ago.num)
        range_diff == current_24h_high - current_24h_low
        top_threshold10 == 10 * current_24h_low + 9 * range_diff
        bottom_threshold10 == 10 * current_24h_low + range_diff
        prev_zone == LastZone(symbol)
    IN  IF 10 * range_diff <= price_24h_ago.den   \* range_diff <= 0.001 GBP
        THEN [parts |-> <<>>, class |-> "skipped", memory |-> swing_memory]
        ELSE IF 10 * cp >= top_threshold10
        THEN IF IsNewZone(prev_zone, "top")
             THEN [parts |-> <<Frag("top", current_price)>>, class |-> "top",
                   memory |-> SetZone(symbol, "top")]
             ELSE [parts |-> <<>>, class |-> "top", memory |-> swing_memory]
        ELSE IF 10 * cp <= bottom_threshold10
        THEN IF IsNewZone(prev_zone, "bottom")
             THEN [parts |-> <<Frag("bottom", current_price)>>, class |-> "bottom",
                   memory |-> SetZone(symbol, "bottom")]
             ELSE [parts |-> <<>>, class |-> "bottom", memory |-> swing_memory]
        ELSE [parts |-> <<>>, class |-> "middle", memory |-> SetZone(symbol, "middle")]

-----------------------------------------------------------------------------
(* The rule battery of check_prices_and_trigger_alerts *)

\* Variant: "if" in place of "elif"
SurgeDropParts_Independent(change_3h) ==
    (IF change_3h >= PRICE_SURGE_PERCENT THEN <<Frag("surge", change_3h)>> ELSE <<>>)
    \o (IF change_3h <= -PRICE_DROP_PERCENT THEN <<Frag("drop", Abs(change_3h))>> ELSE <<>>)

\* 1. Price surge/drop (3-hour change)
SurgeDropParts(change_3h) ==
    IF change_3h >= PRICE_SURGE_PERCENT
    THEN <<Frag("surge", change_3h)>>
    ELSE IF change_3h <= -PRICE_DROP_PERCENT
    THEN <<Frag("drop", Abs(change_3h))>>
    ELSE <<>>

\* Variants: ">" in place of ">="; no alert unless the token is held
ProfitParts_Strict(entry_price, current_price, holding) ==
    IF entry_price # None /\ entry_price > 0
       /\ (current_price - entry_price) * 100 > TARGET_PROFIT_PERCENT * entry_price
    THEN <<Frag("profit", (current_price - entry_price) * holding)>>
    ELSE <<>>

ProfitParts_HeldOnly(entry_price, current_price, holding) ==
    IF entry_price # None /\ entry_price > 0 /\ holding > 0
       /\ (current_price - entry_price) * 100 >= TARGET_PROFIT_PERCENT * entry_price
    THEN <<Frag("profit", (current_price - entry_price) * holding)>>
    ELSE <<>>

\* 2. Target profit.  current_profit_percent >= TARGET_PROFIT_PERCENT * 100 with
\* current_profit_percent = (current_price - entry_price) / entry_price * 100,
\* multiplied through by entry_price > 0.  The figure is profit_gbp.
ProfitParts(entry_price, current_price, holding) ==
    IF entry_price # None /\ entry_price > 0
    THEN IF (current_price - entry_price) * 100 >= TARGET_PROFIT_PERCENT * entry_price
         THEN <<Frag("profit", (current_price - entry_price) * holding)>>
         ELSE <<>>
    ELSE <<>>

\* Variant: without "min_usdt_to_buy > 0"
BuyParts_NoMinimum(buy_price, min_usdt_to_buy, current_price, usdt_balance) ==
    IF buy_price # None /\ current_price <= buy_price /\ usdt_balance >= min_usdt_to_buy
    THEN <<Frag("buy", RoundDiv(min_usdt_to_buy * 100, current_price))>>
    ELSE <<>>

\* 4. Buy alert.  The figure is qty_to_buy in hundredths of a token.
BuyParts(buy_price, min_usdt_to_buy, current_price, usdt_balance) ==
    IF buy_price # None /\ current_price # None /\ current_price <= buy_price
       /\ usdt_balance >= min_usdt_to_buy /\ min_usdt_to_buy > 0
    THEN <<Frag("buy", IF current_price > 0
                       THEN RoundDiv(min_usdt_to_buy * 100, current_price) ELSE 0)>>
    ELSE <<>>

\* Variant: without "min_token_holding_to_sell > 0"
SellParts_NoMinimum(sell_price, buy_price, min_token_holding_to_sell, current_price, holding) ==
    IF sell_price # None /\ current_price >= sell_price
       /\ holding >= min_token_holding_to_sell
    THEN <<Frag("sell", 0)>>
    ELSE <<>>

\* 4. Sell alert.  The figure is profit_pct in tenths of a percent (':.1f').
SellParts(sell_price, buy_price, min_token_holding_to_sell, current_price, holding) ==
    IF sell_price # None /\ current_price # None /\ current_price >= sell_price
       /\ holding >= min_token_holding_to_sell /\ min_token_holding_to_sell > 0
    THEN <<Frag("sell", IF buy_price # None /\ buy_price > 0
                        THEN RoundDiv((current_price - buy_price) * 1000, buy_price)
                        ELSE 0)>>
    ELSE <<>>

\* live_balances.get(symbol, 0.0)
Balance(sym) == IF sym \in DOMAIN live_balances THEN live_balances[sym] ELSE 0

\* msg_parts of one loop iteration, given the result of should_send_swing_alert
MsgParts(symbol, current_price, change_3h, swing) ==
    LET token_specific_config == TokenConfig(symbol)
        holding == Balance(symbol)
        usdt_balance == Balance("USDT")
    IN  SurgeDropParts(change_3h)
        \o ProfitParts(ENTRY_PRICES(symbol), current_price, holding)
        \o swing.parts
        \o BuyParts(token_specific_config.buy_price,
                    Get(token_specific_config.min_usdt_balance, 0),
                    current_price, usdt_balance)
        \o SellParts(token_specific_config.sell_price, token_specific_config.buy_price,
                     Get(token_specific_config.min_token_holding, 0),
                     current_price, holding)

-----------------------------------------------------------------------------
(* State outside a tick *)

NoTime == <<>>
NoBalances == [s \in {} |-> 0]

\* iter before the first loop iteration of a tick
NoIter ==
    [symbol |-> "", data |-> "notrun", current_price |-> None, change_3h |-> None,
     change_24h |-> None, prev_zone |-> "middle", class |-> "none",
     msg_parts |-> <<>>, sent |-> FALSE, posts |-> 0, message |-> <<>>,
     delivered |-> FALSE]

\* iter of an iteration that ended before the rules (continue, or an exception)
Aborted(symbol, data, current_price, change_3h, change_24h) ==
    [NoIter EXCEPT !.symbol = symbol, !.data = data, !.current_price = current_price,
                   !.change_3h = change_3h, !.change_24h = change_24h,
                   !.prev_zone = LastZone(symbol)]

Init ==
    /\ config \in Configs
    /\ pc = "gate"
    /\ now = NoTime
    /\ live_balances = NoBalances
    /\ bal_failed = {}
    /\ idx = 0
    /\ iter = NoIter
    /\ swing_memory = [s \in {} |-> "middle"]
    /\ top_run = [i \in 1..Len(config.tracked_tokens) |->
                     [len |-> 0, fires |-> 0, lost |-> FALSE]]

-----------------------------------------------------------------------------
(* The trading hours and days check *)

\* Variant: "<= END_HOUR"
GateAllows_EndInclusive(weekday, hour) ==
    weekday \in TRADING_DAYS /\ START_HOUR <= hour /\ hour <= END_HOUR

GateAllows(weekday, hour) ==
    IF weekday \notin TRADING_DAYS THEN FALSE
    ELSE IF ~(START_HOUR <= hour /\ hour < END_HOUR) THEN FALSE
    ELSE TRUE

\* Variant: the balances are fetched before the early returns
Gate_FetchFirst ==
    /\ pc = "gate"
    /\ \E weekday \in Weekday, hour \in Hour :
          /\ now' = <<weekday, hour>>
          /\ pc' = IF GateAllows(weekday, hour) THEN "balances" ELSE "sleep"
          /\ live_balances' = IF GateAllows(weekday, hour) THEN live_balances
                              ELSE [s \in TOKEN_CONTRACTS |-> 0]
    /\ UNCHANGED <<config, bal_failed, idx, iter, swing_memory, top_run>>

\* check_prices_and_trigger_alerts up to the two early returns
Gate ==
    /\ pc = "gate"
    /\ \E weekday \in Weekday, hour \in Hour :
          /\ now' = <<weekday, hour>>
          /\ pc' = IF GateAllows(weekday, hour) THEN "balances" ELSE "sleep"
    /\ UNCHANGED <<config, live_balances, bal_failed, idx, iter, swing_memory, top_run>>

\* Variant: one try around the whole loop, so that one failed call empties
\* every balance
get_token_balances_AllOrNothing(result) ==
    IF \E s \in TOKEN_CONTRACTS : result[s] = None
    THEN [s \in TOKEN_CONTRACTS |-> 0]
    ELSE result

\* get_token_balances(), given what each balanceOf call returned (None: it
\* raised): a failed call yields 0 for that symbol only
get_token_balances(result) ==
    [s \in TOKEN_CONTRACTS |-> IF result[s] = None THEN 0 ELSE result[s]]

\* live_balances = get_token_balances().
\* now is read past this point only to stamp log lines, so it is dropped here.
FetchBalances ==
    /\ pc = "balances"
    /\ \E usdt \in BalanceResults("USDT"), pol \in BalanceResults("POL") :
          LET result == [s \in TOKEN_CONTRACTS |-> IF s = "USDT" THEN usdt ELSE pol]
          IN  /\ live_balances' = get_token_balances(result)
              /\ bal_failed' = {s \in TOKEN_CONTRACTS : result[s] = None}
    /\ now' = NoTime
    /\ idx' = 1
    /\ pc' = "loop"
    /\ UNCHANGED <<config, iter, swing_memory, top_run>>

-----------------------------------------------------------------------------
(* One iteration of "for symbol in TOKENS_TO_MONITOR" *)

InLoop == pc = "loop" /\ idx >= 1 /\ idx <= Len(TOKENS_TO_MONITOR)

\* Variant: "return" in place of "continue"
TokenFetchFails_Returns ==
    /\ InLoop
    /\ iter' = Aborted(TOKENS_TO_MONITOR[idx], "failed", None, None, None)
    /\ idx' = idx + 1
    /\ pc' = "sleep"
    /\ UNCHANGED <<config, now, live_balances, bal_failed, swing_memory, top_run>>

\* fetch_token_data returned None: continue
TokenFetchFails ==
    /\ InLoop
    /\ iter' = Aborted(TOKENS_TO_MONITOR[idx], "failed", None, None, None)
    /\ idx' = idx + 1
    /\ UNCHANGED <<config, pc, now, live_balances, bal_failed, swing_memory, top_run>>

\* quote.get('price') is None: continue
TokenPriceMissing ==
    /\ InLoop
    /\ iter' = Aborted(TOKENS_TO_MONITOR[idx], "noprice", None, None, None)
    /\ idx' = idx + 1
    /\ UNCHANGED <<config, pc, now, live_balances, bal_failed, swing_memory, top_run>>

\* A null percent_change_24h raises TypeError at "change_24h / 100" (only
\* ZeroDivisionError is caught there); a null percent_change_3h raises it at
\* "change_3h >= PRICE_SURGE_PERCENT".  Both leave the function before any rule
\* appended or the swing memory changed; the main loop catches the exception.
\* Nothing reads current_price on that path, so iter does not keep it.
TokenRaises ==
    /\ InLoop
    /\ \E change_3h \in Changes3h \cup {None}, change_24h \in Changes24h \cup {None} :
          /\ change_3h = None \/ change_24h = None
          /\ iter' = Aborted(TOKENS_TO_MONITOR[idx], "raised", None, change_3h, change_24h)
    /\ pc' = "cooldown"
    /\ UNCHANGED <<config, now, live_balances, bal_failed, idx, swing_memory, top_run>>

\* Observer, not program state: the length of the current run of consecutive
\* range evaluations of one symbol that classified the price as top, the
\* "near top" fragments they produced, and whether the delivery of the last of
\* these fragments failed.  A skipped range rule leaves it alone.
NextRun(run, swing, send) ==
    IF swing.class = "skipped" THEN run
    ELSE IF swing.class = "top"
    THEN [len |-> Min(run.len + 1, MaxRun),
          fires |-> Min(run.fires + (IF "top" \in Kinds(swing.parts) THEN 1 ELSE 0), MaxRun),
          lost |-> IF "top" \in Kinds(swing.parts) THEN ~send.delivered ELSE run.lost]
    ELSE [len |-> 0, fires |-> 0, lost |-> FALSE]

\* Variant: an alert is sent whether or not a rule fired
ShouldSend_Always(msg_parts) == TRUE

\* "if msg_parts:"
ShouldSend(msg_parts) == msg_parts # <<>>

\* Variant: the failure of the POST is re-raised to the caller
send_telegram_alert_Propagates(message, ok) ==
    [calls |-> 1, text |-> message, delivered |-> ok, raised |-> ~ok]

\* send_telegram_alert(message); ok: the POST succeeded.  One POST, no retry;
\* both except clauses log the failure and return.  The message is the joined
\* fragments, kept here as their sequence.
send_telegram_alert(message, ok) ==
    [calls |-> 1, text |-> message, delivered |-> ok, raised |-> FALSE]

\* Nothing was sent
NotSent == [calls |-> 0, text |-> <<>>, delivered |-> FALSE, raised |-> FALSE]

\* Variant: the zone written by the range rule is taken back when the POST
\* failed
MemoryAfterSend_Rollback(swing, send) ==
    IF send.calls = 1 /\ ~send.delivered THEN swing_memory ELSE swing.memory

\* swing_memory after the send: should_send_swing_alert wrote it while the
\* rules ran, and neither the send nor its failure touches it
MemoryAfterSend(swing, send) == swing.memory

\* The rules ran to the end: the fragments are joined and sent in one message
TokenEvaluated ==
    /\ InLoop
    /\ \E current_price \in Prices, change_3h \in Changes3h, change_24h \in Changes24h :
          LET symbol == TOKENS_TO_MONITOR[idx]
              price_24h_ago == PriceAgo(current_price, change_24h)
          IN  \E swing \in {should_send_swing_alert(symbol, current_price, price_24h_ago)} :
              \E msg_parts \in {MsgParts(symbol, current_price, change_3h, swing)} :
              \E send \in IF ShouldSend(msg_parts)
                           THEN {send_telegram_alert(msg_parts, ok) : ok \in BOOLEAN}
                           ELSE {NotSent} :
                 /\ iter' = [symbol |-> symbol, data |-> "ok",
                             current_price |-> current_price,
                             change_3h |-> change_3h, change_24h |-> change_24h,
                             prev_zone |-> LastZone(symbol), class |-> swing.class,
                             msg_parts |-> msg_parts, sent |-> ShouldSend(msg_parts),
                             posts |-> send.calls, message |-> send.text,
                             delivered |-> send.delivered]
                 /\ swing_memory' = MemoryAfterSend(swing, send)
                 /\ top_run' = [top_run EXCEPT ![idx] = NextRun(@, swing, send)]
                 /\ pc' = IF send.raised THEN "cooldown" ELSE pc
                 /\ idx' = IF send.raised THEN idx ELSE idx + 1
    /\ UNCHANGED <<config, now, live_balances, bal_failed>>

\* The loop is exhausted: check_prices_and_trigger_alerts returns
EndTick ==
    /\ pc = "loop"
    /\ idx > Len(TOKENS_TO_MONITOR)
    /\ pc' = "sleep"
    /\ UNCHANGED <<config, now, live_balances, bal_failed, idx, iter, swing_memory, top_run>>

-----------------------------------------------------------------------------
(* The main loop *)

\* The locals of the tick are gone when the next one starts
NextTick ==
    /\ pc' = "gate"
    /\ now' = NoTime
    /\ live_balances' = NoBalances
    /\ bal_failed' = {}
    /\ idx' = 0
    /\ iter' = NoIter
    /\ UNCHANGED <<config, swing_memory, top_run>>

\* time.sleep(60) after a tick that returned
Sleep == pc = "sleep" /\ NextTick

\* Variant: the handler ends the process instead of sleeping
Cooldown_Exits ==
    /\ pc = "cooldown"
    /\ pc' = "exited"
    /\ UNCHANGED <<config, now, live_balances, bal_failed, idx, iter, swing_memory, top_run>>

\* except Exception: reconnect attempt, time.sleep(300)
Cooldown == pc = "cooldown" /\ NextTick

\* Seconds of time.sleep after a tick that returned, and after the handler of
\* an exception that left the tick
SLEEP_SECONDS == 60
COOLDOWN_SECONDS == 300

\* The argument of the time.sleep call the main loop stands at (0: at none)
Delay ==
    IF pc = "sleep" THEN SLEEP_SECONDS
    ELSE IF pc = "cooldown" THEN COOLDOWN_SECONDS
    ELSE 0

Next ==
    \/ Gate
    \/ FetchBalances
    \/ TokenFetchFails
    \/ TokenPriceMissing
    \/ TokenRaises
    \/ TokenEvaluated
    \/ EndTick
    \/ Sleep
    \/ Cooldown

Spec == Init /\ [][Next]_vars

\* The process keeps running: every HTTP request has a timeout, every sleep
\* returns, so a step that can be taken is eventually taken.  Started from the
\* configuration with one tracked token.
FairInit == Init /\ config = ConfigD

FairSpec == FairInit /\ [][Next]_vars /\ WF_vars(Next)

-----------------------------------------------------------------------------
(* Properties *)

\* The last loop iteration ran every rule
Evaluated == iter.data = "ok"

\* The last loop iteration ran every rule and the range rule was not skipped
RangeEvaluated == Evaluated /\ iter.class \in {"top", "bottom", "middle"}

Fired(kind) == kind \in Kinds(iter.msg_parts)

\* The figure of the fragment of that kind in the last iteration's message
Figure(kind) ==
    LET i == CHOOSE j \in 1..Len(iter.msg_parts) : iter.msg_parts[j].kind = kind
    IN  iter.msg_parts[i].val

IterConfig == TokenConfig(iter.symbol)

\* C1 (hysteresis no-repeat): over consecutive range evaluations of one asset that
\* classify the price as top, starting from a stored zone other than top, exactly
\* one "near top" fragment is produced, and it is produced by the first of them.
C1_NoRepeat ==
    \A i \in DOMAIN top_run :
       /\ top_run[i].len = 0 => LastZone(TOKENS_TO_MONITOR[i]) # "top"
       /\ top_run[i].len >= 1 => top_run[i].fires = 1
       /\ (RangeEvaluated /\ iter.symbol = TOKENS_TO_MONITOR[i] /\ iter.class = "top")
             => (Fired("top") <=> top_run[i].len = 1)

\* A second or later consecutive top evaluation, which produced no fragment
C1_Witness ==
    \E i \in DOMAIN top_run :
       /\ top_run[i].len >= 2 /\ top_run[i].fires = 1
       /\ RangeEvaluated /\ iter.symbol = TOKENS_TO_MONITOR[i] /\ iter.class = "top"
       /\ ~Fired("top")

\* C2 (hysteresis re-arm) is about a range evaluation that classifies the price as
\* middle.  No evaluation does: the price is always an end of the reconstructed
\* range.  C2_MiddleNeverClassified records that the case cannot be exhibited.
C2_MiddleNeverClassified == iter.class # "middle"

\* C3 as stated: between two consecutive range evaluations the stored zone of an
\* asset never goes from top to bottom or from bottom to top.
C3_NoDirectEdge ==
    RangeEvaluated =>
       /\ ~(iter.prev_zone = "top" /\ LastZone(iter.symbol) = "bottom")
       /\ ~(iter.prev_zone = "bottom" /\ LastZone(iter.symbol) = "top")

\* C3 (amended): the stored zone does go from top to bottom and from bottom to top
\* in one range evaluation: it does so exactly when the price is classified in
\* the opposite extreme zone, and that evaluation produces the fragment of the
\* zone entered.
C3_DirectEdgeFires ==
    RangeEvaluated =>
       /\ (iter.prev_zone = "top" /\ iter.class = "bottom")
             => (LastZone(iter.symbol) = "bottom" /\ Fired("bottom"))
       /\ (iter.prev_zone = "bottom" /\ iter.class = "top")
             => (LastZone(iter.symbol) = "top" /\ Fired("top"))
       /\ (iter.prev_zone = "top" /\ LastZone(iter.symbol) = "bottom")
             => iter.class = "bottom"
       /\ (iter.prev_zone = "bottom" /\ LastZone(iter.symbol) = "top")
             => iter.class = "top"

\* A range evaluation that took the stored zone from top straight to bottom
C3_Witness ==
    /\ RangeEvaluated
    /\ iter.prev_zone = "top" /\ LastZone(iter.symbol) = "bottom" /\ Fired("bottom")

\* The gate condition as the specification states it, on the time the gate read
InWindow ==
    /\ now[1] \in TRADING_DAYS
    /\ START_HOUR <= now[2] /\ now[2] < END_HOUR

\* C4 (gate correctness): the tick goes on to fetch balances iff the weekday is in
\* the allowed set and startHour <= hour < endHour; otherwise it goes to sleep.
\* In particular hour = start and hour = end - 1 pass, hour = end fails, and an
\* empty allowed set lets no tick past the gate.
C4_GateCorrect ==
    /\ now # NoTime =>
          /\ pc \in {"balances", "sleep"}
          /\ pc = "balances" <=> InWindow
          /\ (now[1] \in TRADING_DAYS /\ now[2] \in {START_HOUR, END_HOUR - 1})
                => pc = "balances"
          /\ now[2] = END_HOUR => pc = "sleep"
    /\ TRADING_DAYS = {} => pc \in {"gate", "sleep"}

\* A tick let through in the last hour of the window
C4_Witness ==
    now # NoTime /\ pc = "balances" /\ now[2] = END_HOUR - 1

\* The tick was refused by the gate
Refused == now # NoTime /\ ~InWindow

\* C5: on a tick the gate refuses nothing is evaluated: the tick goes straight
\* to sleep with no balance fetched, no token fetched or evaluated, no message
\* sent, and the step that refuses leaves every stored zone as it was.
C5_RefusedTickIdle ==
    /\ [](Refused =>
            /\ pc = "sleep"
            /\ live_balances = NoBalances /\ bal_failed = {}
            /\ idx = 0 /\ iter = NoIter)
    /\ [][Refused' => swing_memory' = swing_memory]_vars

\* A refused tick of a bot that has stored a zone before
C5_Witness ==
    Refused /\ pc = "sleep" /\ swing_memory # <<>>

\* The end-to-end scenario: entry price 100, target 4%, surge 5%, no buy or sell
\* price, first observation of the asset, price 106, +6% in 3h, +10% in 24h
C6_Scenario ==
    /\ Evaluated
    /\ IterConfig.entry_price = 10000
    /\ IterConfig.buy_price = None /\ IterConfig.sell_price = None
    /\ TARGET_PROFIT_PERCENT = 4 /\ PRICE_SURGE_PERCENT = 5
    /\ iter.prev_zone = "middle"
    /\ iter.current_price = 10600 /\ iter.change_3h = 6 /\ iter.change_24h = 10

\* C6 as stated: the scenario produces exactly two fragments, surge then profit
\* target, sent in one message.
C6_TwoFragments ==
    C6_Scenario =>
       /\ Len(iter.msg_parts) = 2
       /\ iter.msg_parts[1].kind = "surge" /\ iter.msg_parts[2].kind = "profit"
       /\ iter.sent

\* C6 (amended): the scenario produces exactly three fragments, surge, profit
\* target and near top of the 24h range, in that order, sent in one message.
C6_ThreeFragments ==
    C6_Scenario =>
       /\ Len(iter.msg_parts) = 3
       /\ iter.msg_parts[1] = Frag("surge", 6)
       /\ iter.msg_parts[2].kind = "profit"
       /\ iter.msg_parts[3] = Frag("top", 10600)
       /\ iter.sent

C6_Witness == C6_Scenario /\ iter.sent /\ Fired("profit")

\* C7 as stated: surge and drop are independent, each fires iff its own
\* threshold is met.
C7_Independent ==
    Evaluated =>
       /\ Fired("surge") <=> iter.change_3h >= PRICE_SURGE_PERCENT
       /\ Fired("drop") <=> iter.change_3h <= -PRICE_DROP_PERCENT

\* C7 (amended): surge fires iff change3h >= surgePercent; drop fires iff
\* change3h <= -dropPercent and surge did not fire, so at most one of the two
\* fragments is produced in a tick even when the thresholds overlap.
C7_SurgeFirst ==
    Evaluated =>
       /\ Fired("surge") <=> iter.change_3h >= PRICE_SURGE_PERCENT
       /\ Fired("drop") <=> (/\ iter.change_3h <= -PRICE_DROP_PERCENT
                             /\ ~(iter.change_3h >= PRICE_SURGE_PERCENT))
       /\ ~(Fired("surge") /\ Fired("drop"))

\* Overlapping thresholds, both met: surge alone
C7_Witness ==
    /\ Evaluated
    /\ iter.change_3h >= PRICE_SURGE_PERCENT /\ iter.change_3h <= -PRICE_DROP_PERCENT
    /\ Fired("surge") /\ ~Fired("drop")

\* C8 (profit target): the rule fires iff the entry price is present, positive
\* and price >= entryPrice * (1 + targetProfitFraction), whatever the holding;
\* the profit amount is (price - entryPrice) * holding, zero when nothing is held.
C8_ProfitTarget ==
    Evaluated =>
       /\ Fired("profit") <=>
             /\ IterConfig.entry_price # None
             /\ IterConfig.entry_price > 0
             /\ iter.current_price * 100
                   >= IterConfig.entry_price * (100 + TARGET_PROFIT_PERCENT)
       /\ Fired("profit") =>
             Figure("profit") = (iter.current_price - IterConfig.entry_price) * Balance(iter.symbol)
       /\ (Fired("profit") /\ Balance(iter.symbol) = 0) => Figure("profit") = 0

\* The rule fired exactly on the boundary for an asset that is not held
C8_Witness ==
    /\ Evaluated /\ Fired("profit")
    /\ iter.current_price * 100 = IterConfig.entry_price * (100 + TARGET_PROFIT_PERCENT)
    /\ Balance(iter.symbol) = 0 /\ Figure("profit") = 0

\* C9 (buy rule): a buy fragment is produced iff buyPrice is present,
\* price <= buyPrice, the funding balance >= minFundingBalance and
\* minFundingBalance > 0; a zero or absent minimum disables the rule.
C9_BuyRule ==
    Evaluated =>
       /\ Fired("buy") <=>
             /\ IterConfig.buy_price # None
             /\ iter.current_price <= IterConfig.buy_price
             /\ IterConfig.min_usdt_balance # None
             /\ IterConfig.min_usdt_balance > 0
             /\ Balance("USDT") >= IterConfig.min_usdt_balance
       /\ (IterConfig.min_usdt_balance = None \/ IterConfig.min_usdt_balance = 0)
             => ~Fired("buy")

\* The rule fired with the funding balance exactly at the minimum
C9_Witness ==
    /\ Evaluated /\ Fired("buy")
    /\ Balance("USDT") = IterConfig.min_usdt_balance

\* C10 (sell rule): a sell fragment is produced iff sellPrice is present,
\* price >= sellPrice, the holding >= minHoldingBalance and
\* minHoldingBalance > 0; a zero or absent minimum disables the rule.
C10_SellRule ==
    Evaluated =>
       /\ Fired("sell") <=>
             /\ IterConfig.sell_price # None
             /\ iter.current_price >= IterConfig.sell_price
             /\ IterConfig.min_token_holding # None
             /\ IterConfig.min_token_holding > 0
             /\ Balance(iter.symbol) >= IterConfig.min_token_holding
       /\ (IterConfig.min_token_holding = None \/ IterConfig.min_token_holding = 0)
             => ~Fired("sell")

\* The rule fired with the holding exactly at the minimum and the price at the
\* sell price
C10_Witness ==
    /\ Evaluated /\ Fired("sell")
    /\ Balance(iter.symbol) = IterConfig.min_token_holding
    /\ iter.current_price = IterConfig.sell_price

\* C11 (sell profit figure): when the sell rule fires and buyPrice is absent
\* or not positive, the sell fragment carries no realised-profit figure (it is
\* reported as unavailable) rather than a figure of 0.
C11_ProfitOmitted ==
    (Evaluated /\ Fired("sell")
       /\ (IterConfig.buy_price = None \/ IterConfig.buy_price <= 0))
    => Figure("sell") = None

\* The position of a tracked symbol in TOKENS_TO_MONITOR
Pos(sym) == CHOOSE i \in 1..Len(TOKENS_TO_MONITOR) : TOKENS_TO_MONITOR[i] = sym

\* The last loop iteration ended at a "continue": no data, or no usable price
FeedFailed == iter.data \in {"failed", "noprice"}

\* C12 (isolated feed failure): when the fetch for an asset fails or yields no
\* usable price, the iteration produces no fragment and sends nothing, leaves
\* the asset's stored zone (and the whole swing memory) as it was, and does not
\* end the tick: the loop goes on to the next tracked asset, whose fetch and
\* evaluation is the next thing that happens, and ends normally after the last.
C12_FeedFailureIsolated ==
    /\ [](FeedFailed =>
             /\ iter.msg_parts = <<>> /\ ~iter.sent /\ iter.posts = 0
             /\ LastZone(iter.symbol) = iter.prev_zone
             /\ pc \in {"loop", "sleep"}
             /\ idx = Pos(iter.symbol) + 1
             /\ pc = "sleep" => idx = Len(TOKENS_TO_MONITOR) + 1)
    /\ [][(FeedFailed' /\ iter' # iter) => swing_memory' = swing_memory]_vars
    /\ [][(FeedFailed /\ pc = "loop" /\ idx <= Len(TOKENS_TO_MONITOR))
             => /\ iter'.symbol = TOKENS_TO_MONITOR[idx]
                /\ iter'.data \in {"failed", "noprice", "raised", "ok"}]_vars

\* The fetch of the first of two tracked assets failed while its stored zone
\* was top, and the loop stands at the second asset
C12_Witness ==
    /\ FeedFailed /\ iter.data = "failed"
    /\ Len(TOKENS_TO_MONITOR) = 2 /\ idx = 2 /\ pc = "loop"
    /\ LastZone(iter.symbol) = "top"

\* C13 (per-asset isolation): an error raised while one asset is evaluated
\* stays with that asset: the tick is not aborted and the assets after it in
\* the list are still fetched and evaluated in the same tick.
C13_ErrorsStayLocal ==
    (iter.data = "raised" /\ Pos(iter.symbol) < Len(TOKENS_TO_MONITOR))
    => (pc = "loop" /\ idx = Pos(iter.symbol) + 1)

\* The gate of a tick has just run
TickStarted == now # NoTime

\* C14 (tick-level crash isolation): an error that leaves a tick is caught by
\* the main loop, which then waits the cooldown, 5 times the normal delay,
\* instead of the normal delay, and starts another tick; the loop never
\* terminates (ticks start again and again), and after every failed tick a
\* further tick eventually runs.
C14_CrashIsolation ==
    /\ [](iter.data = "raised" => (pc = "cooldown" /\ Delay = 5 * SLEEP_SECONDS))
    /\ [](pc = "sleep" => Delay = SLEEP_SECONDS)
    /\ [][pc = "cooldown" => pc' = "gate"]_vars
    /\ []<>(pc = "gate")
    /\ (pc = "cooldown") ~> TickStarted

\* A tick that was not the first one failed and the loop is in the cooldown
C14_Witness ==
    /\ pc = "cooldown" /\ iter.data = "raised" /\ Delay = COOLDOWN_SECONDS
    /\ swing_memory # <<>>

\* The place of a fragment's rule in the order surge/drop, profit target, 24h
\* range, buy, sell
Rank(kind) ==
    IF kind \in {"surge", "drop"} THEN 1
    ELSE IF kind = "profit" THEN 2
    ELSE IF kind \in {"top", "bottom"} THEN 3
    ELSE IF kind = "buy" THEN 4
    ELSE 5

\* C15 (aggregation): in an evaluated tick each asset's iteration calls the
\* notifier exactly once if it produced at least one fragment and not at all
\* if it produced none, and the one message carries all of the asset's
\* fragments in rule order.
C15_Aggregation ==
    /\ iter.posts = (IF Evaluated /\ Len(iter.msg_parts) >= 1 THEN 1 ELSE 0)
    /\ iter.sent <=> iter.posts = 1
    /\ iter.posts = 1 => iter.message = iter.msg_parts
    /\ \A i, j \in 1..Len(iter.msg_parts) :
          i < j => Rank(iter.msg_parts[i].kind) < Rank(iter.msg_parts[j].kind)

\* One message carrying at least three fragments, the buy fragment among them
C15_Witness ==
    /\ Evaluated /\ iter.posts = 1
    /\ Len(iter.message) >= 3
    /\ Fired("buy")

\* The last loop iteration called the notifier and the POST failed
SendFailed == Evaluated /\ iter.posts >= 1 /\ ~iter.delivered

\* C16 (notifier failure is non-fatal): when the send for an asset fails, it
\* is not retried (one POST), no error leaves the send, the tick continues
\* with the next asset and, after the last asset, ends with the normal delay,
\* not the cooldown.
C16_SendFailureNonFatal ==
    /\ [](SendFailed =>
             /\ iter.posts = 1
             /\ pc \in {"loop", "sleep"}
             /\ idx = Pos(iter.symbol) + 1
             /\ pc = "sleep" => Delay = SLEEP_SECONDS)
    /\ [][(SendFailed /\ pc = "loop" /\ idx <= Len(TOKENS_TO_MONITOR))
             => iter'.symbol = TOKENS_TO_MONITOR[idx]]_vars
    /\ [][(SendFailed /\ pc = "loop" /\ idx > Len(TOKENS_TO_MONITOR))
             => pc' = "sleep"]_vars

\* The send failed for the first of two assets, and the loop stands at the
\* second
C16_Witness ==
    /\ SendFailed /\ pc = "loop"
    /\ Len(TOKENS_TO_MONITOR) = 2 /\ idx = 2

\* C17 (degenerate range guard): with a 24h change of -100 percent the
\* reconstruction divides by nothing and raises no error, the price 24h ago is
\* taken to be the current price, the range rule is skipped (no range
\* fragment, stored zone unchanged), and the other rules are still evaluated.
C17_DegenerateRangeGuard ==
    (iter.data \in {"ok", "raised"} /\ iter.change_24h = -100) =>
       /\ iter.data = "raised" => iter.change_3h = None
       /\ Evaluated =>
             /\ PriceAgo(iter.current_price, iter.change_24h)
                   = [num |-> iter.current_price, den |-> 1]
             /\ iter.class = "skipped"
             /\ ~Fired("top") /\ ~Fired("bottom")
             /\ LastZone(iter.symbol) = iter.prev_zone
             /\ Fired("surge") <=> iter.change_3h >= PRICE_SURGE_PERCENT
             /\ Fired("profit") <=>
                   /\ IterConfig.entry_price # None /\ IterConfig.entry_price > 0
                   /\ (iter.current_price - IterConfig.entry_price) * 100
                         >= TARGET_PROFIT_PERCENT * IterConfig.entry_price

\* With a change of -100 percent and a stored zone of top the range rule was
\* skipped while the surge and the profit target rules fired
C17_Witness ==
    /\ Evaluated /\ iter.change_24h = -100
    /\ iter.class = "skipped" /\ iter.prev_zone = "top"
    /\ LastZone(iter.symbol) = "top"
    /\ Fired("surge") /\ Fired("profit")

\* The balance read of the asset of the last loop iteration failed in this tick
BalanceFailed == Evaluated /\ iter.symbol \in bal_failed

\* C18 as stated (balance failure degradation): when the balance read fails
\* for an asset its holding is taken as zero, evaluation proceeds, and neither
\* the profit-target rule nor the sell rule fires for that asset in that tick.
C18_NoProfitNoSell ==
    BalanceFailed =>
       /\ Balance(iter.symbol) = 0
       /\ ~Fired("profit")
       /\ ~Fired("sell")

\* C18 (balance failure degradation), amended: a failed balance read makes
\* that asset's holding zero and leaves the balances read successfully as
\* they were returned; the asset is still evaluated; the sell rule does not
\* fire for it, and the profit-target rule fires exactly when the price
\* reaches the target, reporting a profit amount of zero.
C18_FailedBalanceIsZero ==
    /\ \A s \in bal_failed : Balance(s) = 0
    /\ \A s \in DOMAIN live_balances \ bal_failed :
          live_balances[s] \in BalanceResults(s) \ {None}
    /\ BalanceFailed =>
          /\ ~Fired("sell")
          /\ Fired("profit") <=>
                /\ IterConfig.entry_price # None /\ IterConfig.entry_price > 0
                /\ (iter.current_price - IterConfig.entry_price) * 100
                      >= TARGET_PROFIT_PERCENT * IterConfig.entry_price
          /\ Fired("profit") => Figure("profit") = 0

\* The POL balance read failed and the USDT read returned 50.00; POL was
\* evaluated at a price above its sell price and its profit target: the
\* profit-target fragment was produced, the sell fragment was not
C18_Witness ==
    /\ BalanceFailed /\ iter.symbol = "POL"
    /\ "USDT" \notin bal_failed /\ Balance("USDT") = 5000
    /\ IterConfig.sell_price # None /\ iter.current_price >= IterConfig.sell_price
    /\ IterConfig.min_token_holding # None /\ IterConfig.min_token_holding > 0
    /\ Fired("profit") /\ ~Fired("sell")

\* The zone of the transition function for a price and a 24h change other
\* than -100 percent: the price 24h ago is price * 100 / (100 + change), the
\* range runs between the two prices, Top is at or above low + 0.9 range,
\* Bottom at or below low + 0.1 range.  Every term is multiplied by
\* 10 * (100 + change).
ZoneOf(price, change) ==
    LET d == 100 + change
        p == price * d
        ago == price * 100
        low == Min(p, ago)
        range == Max(p, ago) - low
    IN  IF 10 * p >= 10 * low + 9 * range THEN "top"
        ELSE IF 10 * p <= 10 * low + range THEN "bottom"
        ELSE "middle"

\* C19 (stored zone follows the classification): after every range evaluation
\* that is not skipped, the asset's stored zone is the zone of this tick's
\* price (Top if price >= topThreshold, else Bottom if price <= bottomThreshold,
\* else Middle), whether or not a fragment was produced.
C19_StoredZoneIsClassified ==
    RangeEvaluated =>
       LastZone(iter.symbol) = ZoneOf(iter.current_price, iter.change_24h)

\* A range evaluation of an asset already in the bottom zone classified the
\* price as bottom again, and the iteration produced no fragment at all
C19_Witness ==
    /\ RangeEvaluated /\ iter.prev_zone = "bottom"
    /\ ZoneOf(iter.current_price, iter.change_24h) = "bottom"
    /\ iter.msg_parts = <<>>
    /\ LastZone(iter.symbol) = "bottom"

\* The symbols a zone can be asked for: the tracked ones and one never tracked
Symbols == {"POL", "SOL", "USDT"}

\* C20 (zone frame): an asset's stored zone is changed only by that asset's
\* own range evaluation that was not skipped; every other step (another
\* asset's iteration, the other rules, a skipped range rule, a feed or balance
\* failure, a send, a sleep) leaves it as it was; with nothing stored, every
\* asset reads as middle.
C20_ZoneFrame ==
    /\ [](\A s \in Symbols : s \notin DOMAIN swing_memory => LastZone(s) = "middle")
    /\ [](DOMAIN swing_memory \subseteq {TOKENS_TO_MONITOR[i] : i \in 1..Len(TOKENS_TO_MONITOR)})
    /\ [][\A s \in Symbols :
             LastZone(s)' # LastZone(s) =>
                /\ pc = "loop" /\ idx <= Len(TOKENS_TO_MONITOR)
                /\ TOKENS_TO_MONITOR[idx] = s
                /\ iter'.symbol = s /\ iter'.data = "ok"
                /\ iter'.class \in {"top", "bottom", "middle"}
                /\ iter'.prev_zone = LastZone(s)
                /\ LastZone(s)' = iter'.class]_vars

\* SOL was evaluated with its range rule skipped and its alert delivered, after
\* a failed POL balance read: POL keeps its stored zone top and SOL, never
\* stored, reads as middle
C20_Witness ==
    /\ Evaluated /\ iter.symbol = "SOL" /\ iter.class = "skipped" /\ iter.delivered
    /\ "POL" \in bal_failed
    /\ LastZone("POL") = "top"
    /\ "SOL" \notin DOMAIN swing_memory /\ LastZone("SOL") = "middle"

\* C21 (the price is an end of the range): the range is rebuilt as max/min of
\* the current price and the price 24h ago, so every range evaluation that is
\* not skipped classifies the price as top (it is the high) or bottom (it is
\* the low), never middle; the stored zone is never written as middle, and a
\* zone that has left its initial middle never reads as middle again.
C21_NeverMiddle ==
    /\ [](RangeEvaluated =>
             LET ago == PriceAgo(iter.current_price, iter.change_24h)
                 cp == iter.current_price * ago.den
             IN  /\ iter.class \in {"top", "bottom"}
                 /\ iter.class = "top" <=> cp = Max(cp, ago.num)
                 /\ iter.class = "bottom" <=> cp = Min(cp, ago.num))
    /\ [](\A s \in DOMAIN swing_memory : swing_memory[s] # "middle")
    /\ [][\A s \in Symbols :
             LastZone(s) # "middle" => LastZone(s)' # "middle"]_vars

\* Both tracked assets have left the middle zone, and the asset evaluated last
\* moved from the top zone to the bottom zone with the price as the 24h low
C21_Witness ==
    /\ RangeEvaluated /\ iter.prev_zone = "top" /\ iter.class = "bottom"
    /\ Len(TOKENS_TO_MONITOR) = 2
    /\ \A i \in 1..Len(TOKENS_TO_MONITOR) : LastZone(TOKENS_TO_MONITOR[i]) # "middle"
    /\ iter.current_price * (100 + iter.change_24h) < iter.current_price * 100

\* C22 (no rollback on a failed send): the zone is written before the message
\* is sent and stays written when the send fails: after an iteration whose
\* near-top or near-bottom fragment was not delivered the stored zone is that
\* zone, and for as long as later evaluations classify the price in the same
\* zone the fragment is not produced again (over a run of top evaluations
\* whose fragment was lost, exactly one near-top fragment was produced).
C22_NoRepeatAfterFailedSend ==
    /\ \A zone \in {"top", "bottom"} :
          (SendFailed /\ Fired(zone)) => LastZone(iter.symbol) = zone
    /\ \A i \in DOMAIN top_run :
          top_run[i].lost =>
             /\ top_run[i].len >= 1 /\ top_run[i].fires = 1
             /\ LastZone(TOKENS_TO_MONITOR[i]) = "top"
    /\ \A zone \in {"top", "bottom"} :
          (RangeEvaluated /\ iter.prev_zone = zone /\ iter.class = zone) => ~Fired(zone)

\* The near-top fragment of an asset was not delivered; a later evaluation
\* classified the price as top again and produced no near-top fragment
C22_Witness ==
    \E i \in DOMAIN top_run :
       /\ top_run[i].lost /\ top_run[i].len >= 2 /\ top_run[i].fires = 1
       /\ Evaluated /\ iter.symbol = TOKENS_TO_MONITOR[i]
       /\ iter.class = "top" /\ ~Fired("top")

=============================================================================
